---- MODULE Spec2Model ----
(***************************************************************************)
(* Model of final-project-golang-ai-v4/main.go: the CSV loader CsvToSlice, *)
(* the connector AIModelConnector.ConnectAIModel and the POST /ask handler *)
(* registered in main.                                                     *)
(*                                                                         *)
(* Text is a sequence of one-character strings.  encoding/csv, net/http    *)
(* and encoding/json are library code: they are modelled by the behaviour  *)
(* the Go standard library documents for the configuration main.go uses.   *)
(***************************************************************************)
EXTENDS Integers, Sequences, FiniteSets, TLC

\* ------------------------------------------------------------------ bounds

\* longest text of the exhaustively enumerated CSV inputs
MaxLen == 5

\* number of callers running concurrently (POST /ask requests or direct calls)
NumProcs == 2

\* ------------------------------------------------------------- characters

COMMA == ","
NL == "\n"
SP == " "
QUOTE == "\""
Alphabet == {"a", "b", COMMA, NL, SP, QUOTE}

\* ------------------------------------------------------- sequence helpers

Range(s) == {s[i] : i \in 1..Len(s)}

Has(s, c) == \E i \in 1..Len(s) : s[i] = c

\* first index of c in s, 0 when absent (bytes.IndexRune / bytes.IndexByte)
IndexOf(s, c) ==
    IF Has(s, c) THEN CHOOSE i \in 1..Len(s) : s[i] = c /\ \A j \in 1..(i - 1) : s[j] # c
    ELSE 0

From(s, i) == SubSeq(s, i, Len(s))

\* Body(v), with v evaluated once
With(v, Body(_)) == CHOOSE r \in {Body(x) : x \in {v}} : TRUE

\* ------------------------------------------------ encoding/csv, as set up
\* by CsvToSlice: Comma ',', LazyQuotes false, FieldsPerRecord 0,
\* TrimLeadingSpace true, no Comment character.

\* Reader.readLine: the text up to and including the next newline
ReadLine(t) ==
    With(IndexOf(t, NL), LAMBDA k :
        IF k = 0 THEN [line |-> t, rest |-> <<>>]
        ELSE [line |-> SubSeq(t, 1, k), rest |-> From(t, k + 1)])

LengthNL(line) == IF Len(line) > 0 /\ line[Len(line)] = NL THEN 1 ELSE 0

IsSpace(c) == c = SP \/ c = NL

\* r.TrimLeadingSpace = true: leading white space of a field is dropped
TrimLeadingSpace(line) ==
    IF \A i \in 1..Len(line) : IsSpace(line[i]) THEN <<>>
    ELSE From(line, CHOOSE i \in 1..Len(line) :
                        ~IsSpace(line[i]) /\ \A j \in 1..(i - 1) : IsSpace(line[j]))

RECURSIVE ParseFields(_, _, _)
RECURSIVE QuotedField(_, _, _, _)

\* Reader.readRecord, the parseField loop: the fields of one record.
\* line0 is the unread part of the current line, rest the text after it.
ParseFields(line0, rest, fields) ==
    With(TrimLeadingSpace(line0), LAMBDA line :
        IF Len(line) = 0 \/ line[1] # QUOTE
        THEN With(IndexOf(line, COMMA), LAMBDA i :
             With(IF i > 0 THEN SubSeq(line, 1, i - 1)
                  ELSE SubSeq(line, 1, Len(line) - LengthNL(line)), LAMBDA field :
                 IF Has(field, QUOTE)
                 THEN [err |-> "ErrBareQuote", fields |-> <<>>, rest |-> rest]
                 ELSE IF i > 0
                 THEN ParseFields(From(line, i + 1), rest, Append(fields, field))
                 ELSE [err |-> "", fields |-> Append(fields, field), rest |-> rest]))
        ELSE QuotedField(Tail(line), rest, <<>>, fields))

\* Reader.readRecord, a quoted field: buf is the field's text so far
QuotedField(line, rest, buf, fields) ==
    With(IndexOf(line, QUOTE), LAMBDA i :
        IF i > 0
        THEN With(buf \o SubSeq(line, 1, i - 1), LAMBDA buf2 :
             With(From(line, i + 1), LAMBDA l2 :
                 IF Len(l2) > 0 /\ l2[1] = QUOTE
                 THEN QuotedField(Tail(l2), rest, Append(buf2, QUOTE), fields)
                 ELSE IF Len(l2) > 0 /\ l2[1] = COMMA
                 THEN ParseFields(Tail(l2), rest, Append(fields, buf2))
                 ELSE IF LengthNL(l2) = Len(l2)
                 THEN [err |-> "", fields |-> Append(fields, buf2), rest |-> rest]
                 ELSE [err |-> "ErrQuote", fields |-> <<>>, rest |-> rest]))
        ELSE IF Len(line) > 0
        THEN With(ReadLine(rest), LAMBDA nl :
                 QuotedField(nl.line, nl.rest, buf \o line, fields))
        ELSE [err |-> "ErrQuote", fields |-> <<>>, rest |-> rest])

\* A reader that checks no field count (FieldsPerRecord < 0).
FieldCountOK_unchecked(n, fieldsPerRecord) == TRUE

\* FieldsPerRecord is 0 in the reader csv.NewReader returns: the first record
\* sets it, and every later record must have that many fields.
FieldCountOK(n, fieldsPerRecord) == fieldsPerRecord = 0 \/ n = fieldsPerRecord

\* Reader.ReadAll: the records up to the end of the text, or the first error.
\* A line that is empty is skipped.
RECURSIVE ReadAllFrom(_, _, _)
ReadAllFrom(t, records, fieldsPerRecord) ==
    IF Len(t) = 0 THEN [err |-> "", records |-> records]
    ELSE With(ReadLine(t), LAMBDA nl :
             IF Len(nl.line) = LengthNL(nl.line)
             THEN ReadAllFrom(nl.rest, records, fieldsPerRecord)
             ELSE With(ParseFields(nl.line, nl.rest, <<>>), LAMBDA p :
                      IF p.err # "" THEN [err |-> p.err, records |-> <<>>]
                      ELSE IF ~FieldCountOK(Len(p.fields), fieldsPerRecord)
                      THEN [err |-> "ErrFieldCount", records |-> <<>>]
                      ELSE ReadAllFrom(p.rest, Append(records, p.fields), Len(p.fields))))

\* records, err := r.ReadAll()
ReadAll(data) == ReadAllFrom(data, <<>>, 0)

\* ------------------------------------------------------------- CsvToSlice

\* a Go map[string][]string is a function on its keys; reading an absent key
\* gives the nil slice and assigning adds the key
MapGet(m, k) == IF k \in DOMAIN m THEN m[k] ELSE <<>>

MapSet(m, k, v) == [x \in DOMAIN m \cup {k} |-> IF x = k THEN v ELSE m[x]]

\* result := make(map[string][]string)
\* for _, header := range headers { result[header] = []string{} }
RECURSIVE HeaderColumns(_, _, _)
HeaderColumns(result, headers, i) ==
    IF i > Len(headers) THEN result
    ELSE HeaderColumns(MapSet(result, headers[i], <<>>), headers, i + 1)

\* for i, value := range row { result[headers[i]] = append(result[headers[i]], value) }
RECURSIVE AppendRow(_, _, _, _)
AppendRow(result, headers, row, i) ==
    IF i > Len(row) THEN result
    ELSE AppendRow(MapSet(result, headers[i], Append(MapGet(result, headers[i]), row[i])),
                   headers, row, i + 1)

RECURSIVE AppendRows(_, _, _, _)
AppendRows(result, headers, rows, r) ==
    IF r > Len(rows) THEN result
    ELSE AppendRows(AppendRow(result, headers, rows[r], 1), headers, rows, r + 1)

\* the loop ranges over records, header record included
DataRows_all(records) == records

\* records[1:]
DataRows(records) == SubSeq(records, 2, Len(records))

EmptyMap == <<>>

\* the nil map returned beside an error
NilTable == <<>>

ErrNoData == "CSV file must contain at least one row of data"

ErrPanic == "panic: index out of range"

\* the guard lets a lone header record through
TooFewRecords_headerOnly(records) == Len(records) < 1

\* if len(records) < 2
TooFewRecords(records) == Len(records) < 2

\* CsvToSlice(data): err is "" for a nil error.  headers[i] with i past the
\* header record panics: nothing is returned, which err reports as ErrPanic.
CsvToSlice(data) ==
    With(ReadAll(data), LAMBDA read :
    With(read.records, LAMBDA records :
        IF read.err # "" THEN [table |-> NilTable, err |-> read.err]
        ELSE IF TooFewRecords(records) THEN [table |-> NilTable, err |-> ErrNoData]
        ELSE IF Len(records) = 0 \/ \E r \in 1..Len(DataRows(records)) :
                                        Len(DataRows(records)[r]) > Len(records[1])
        THEN [table |-> NilTable, err |-> ErrPanic]
        ELSE [table |-> AppendRows(HeaderColumns(EmptyMap, records[1], 1), records[1],
                                   DataRows(records), 1),
              err |-> ""]))

\* ------------------------------------------------------- types of main.go

StatusOK == 200
StatusBadRequest == 400
StatusInternalServerError == 500

\* type Response struct: Response{} is the zero value
ZeroResponse == [Answer |-> <<>>, Coordinates |-> <<>>, Cells |-> <<>>, Aggregator |-> ""]

\* type Inputs struct
Inputs(table, query) == [kind |-> "Inputs", Table |-> table, Query |-> query]

\* ConnectAIModel takes payload interface{}: a value json.Marshal rejects
\* (a channel, a function) is a possible argument of a direct call
UnsupportedPayload == [kind |-> "chan", Table |-> EmptyMap, Query |-> <<>>]

\* a Go error: msg "" is nil; code and status are the %d and %s of line 85
NilErr == [msg |-> "", code |-> 0, status |-> ""]

Err(m) == [msg |-> m, code |-> 0, status |-> ""]

\* fmt.Errorf("failed to get valid response: %d %s", resp.StatusCode, resp.Status)
StatusErr(code, status) ==
    [msg |-> "failed to get valid response: %d %s", code |-> code, status |-> status]

\* url of line 64
ModelURL == "https://api-inference.huggingface.co/models/google/tapas-base-finetuned-wtq"

\* payloadBytes, err := json.Marshal(payload)
JsonMarshal(payload) ==
    IF payload.kind = "Inputs"
    THEN [bytes |-> [table |-> payload.Table, query |-> payload.Query], err |-> NilErr]
    ELSE [bytes |-> [table |-> EmptyMap, query |-> <<>>],
          err |-> Err("json: unsupported type")]

\* http.NewRequest("POST", url, body) and the two req.Header.Set calls
NewRequest(bytes, token) ==
    [method |-> "POST", url |-> ModelURL, Authorization |-> <<"Bearer ", token>>,
     ContentType |-> "application/json", body |-> bytes]

NoRequest == NewRequest([table |-> EmptyMap, query |-> <<>>], "")

\* ------------------------------------------------------ the remote endpoint

\* the statuses the endpoint answers with, and resp.Status for each
Statuses == {200, 201, 401}

StatusLine(code) ==
    CASE code = 200 -> "200 OK"
      [] code = 201 -> "201 Created"
      [] code = 401 -> "401 Unauthorized"
      [] OTHER -> "000"

\* the bodies it sends: the answer object, text that is no JSON, an object
\* whose "coordinates" is a string, the answer object followed by other text,
\* and a stream that ends before the body is complete
BodyKinds == {"answer", "nonjson", "mistyped", "trailing", "cut"}

\* the answer of the model to a request: it names the query it answers
AnswerTo(request) ==
    [Answer |-> <<"answer to", request.body.query>>,
     Coordinates |-> <<<<0, 1>>>>, Cells |-> <<"30">>, Aggregator |-> "NONE"]

\* a response of the endpoint; fail is a failed exchange (no response)
RemoteResponse(fail, code, bkind, request) ==
    [fail |-> fail, StatusCode |-> code, Status |-> StatusLine(code),
     Body |-> [kind |-> bkind, value |-> AnswerTo(request)]]

NoResponse ==
    [fail |-> FALSE, StatusCode |-> 0, Status |-> "",
     Body |-> [kind |-> "none", value |-> ZeroResponse]]

\* ----------------------------------------------- steps of ConnectAIModel

\* a status check that lets every status below 400 through
StatusIsOK_below400(code) == code < StatusBadRequest

\* resp.StatusCode != http.StatusOK, negated
StatusIsOK(code) == code = StatusOK

\* respBody, err := ioutil.ReadAll(resp.Body)
ReadAllBody(body) ==
    IF body.kind = "cut" THEN Err("unexpected EOF") ELSE NilErr

\* var response Response; err = json.NewDecoder(...).Decode(&response):
\* the value of response after the call, and err.  Decode reads the first
\* JSON value of the stream; on a field of the wrong type it goes on with the
\* other fields and returns the UnmarshalTypeError.
JsonDecode(body) ==
    CASE body.kind = "answer" -> [response |-> body.value, err |-> NilErr]
      [] body.kind = "trailing" -> [response |-> body.value, err |-> NilErr]
      [] body.kind = "mistyped" ->
            [response |-> [body.value EXCEPT !.Coordinates = <<>>],
             err |-> Err("json: cannot unmarshal string into Go struct field")]
      [] OTHER -> [response |-> ZeroResponse, err |-> Err("invalid character")]

\* the decoded value is returned whatever err is
DecodeResult_keepPartial(decoded) == [response |-> decoded.response, err |-> decoded.err]

\* if err != nil { return Response{}, err }; return response, nil
DecodeResult(decoded) ==
    IF decoded.err # NilErr THEN [response |-> ZeroResponse, err |-> decoded.err]
    ELSE [response |-> decoded.response, err |-> NilErr]

\* ------------------------------------------------------------------ state

\* the concurrent callers: POST /ask requests and direct calls of ConnectAIModel
Procs == 1..NumProcs

VARIABLES
    data,       \* CsvToSlice alone: its argument
    csvPc,      \* CsvToSlice alone: "ready" or "returned"
    csvOut,     \* CsvToSlice alone: what it returned
    file,       \* data-series.csv: whether it can be opened, and its text
    envToken,   \* os.Getenv("HUGGINGFACE_TOKEN")
    pc,         \* where each caller is
    kind,       \* "ask": a POST /ask request; "direct": a call of ConnectAIModel
    reqBody,    \* the body of the /ask request: valid JSON or not, and its query
    table,      \* table, err of line 136
    payload,    \* the payload argument of ConnectAIModel
    token,      \* the token argument of ConnectAIModel
    client,     \* c.Client: its Timeout (0: none)
    sent,       \* requests the call has issued through c.Client.Do
    req,        \* the request last issued
    resp,       \* resp of line 78
    bodyRead,   \* whether resp.Body was read
    ret,        \* what ConnectAIModel returned
    out         \* what the handler wrote with c.JSON

csvVars == <<data, csvPc, csvOut>>

envVars == <<file, envToken>>

askVars == <<reqBody, table, out>>

callVars == <<payload, token, client, sent, req, resp, bodyRead, ret>>

vars == <<data, csvPc, csvOut, file, envToken, pc, kind, reqBody, table, payload,
          token, client, sent, req, resp, bodyRead, ret, out>>

\* Name,Age / Alice,30 / Bob,25
ExampleText ==
    <<"N", "a", "m", "e", ",", "A", "g", "e", "\n",
      "A", "l", "i", "c", "e", ",", "3", "0", "\n",
      "B", "o", "b", ",", "2", "5">>

\* longer inputs than the enumeration reaches: two by two tables with a quoted
\* field, a repeated header, a short and a long second data row, and a quoted
\* field that holds a line break
Samples ==
    { ExampleText,
      <<"a", ",", "b", "\n", "\"", "a", ",", "\"", ",", "b", "\n", "b", ",", " ", "a", "\n">>,
      <<"a", ",", "a", "\n", "a", ",", "b", "\n", "b", ",", "a">>,
      <<"a", ",", "b", "\n", "a", ",", "b", "\n", "b">>,
      <<"a", ",", "b", "\n", "a", ",", "b", "\n", "b", ",", "a", ",", "a">>,
      <<"a", ",", "b", "\n", "\n", "\"", "a", "\n", "b", "\"", ",", "\"", "\"", "\"", "\"">> }

Texts == UNION {[1..n -> Alphabet] : n \in 0..MaxLen} \cup Samples

NoOut == [table |-> NilTable, err |-> "not called"]

\* data-series.csv as the handler may find it: absent, a table of two columns
\* and one data row, a lone header row, a table with a short row
Files ==
    { [exists |-> FALSE, text |-> <<>>],
      [exists |-> TRUE, text |-> <<"a", ",", "b", "\n", "b", ",", " ", "a">>],
      [exists |-> TRUE, text |-> <<"a", ",", "b", "\n">>],
      [exists |-> TRUE, text |-> <<"a", ",", "b", "\n", "a", "\n">>] }

Tokens == {"", "hf_token"}

\* http.Client.Timeout values a direct caller may have set (0: no timeout)
ClientTimeouts == {0, 30}

\* the callers that may call ConnectAIModel directly; every caller may be a
\* POST /ask request
DirectCallers == {1}

\* the query caller p asks
QueryOf(p) == <<"query of", p>>

NoReply == [code |-> 0, error |-> "", err |-> NilErr, response |-> ZeroResponse]

NoReturn == [response |-> ZeroResponse, err |-> Err("not returned")]

InitServer ==
    /\ file \in Files
    /\ envToken \in Tokens
    /\ pc = [p \in Procs |-> "idle"]
    /\ kind = [p \in Procs |-> "none"]
    /\ reqBody = [p \in Procs |-> [valid |-> FALSE, query |-> <<>>]]
    /\ table = [p \in Procs |-> NoOut]
    /\ payload = [p \in Procs |-> UnsupportedPayload]
    /\ token = [p \in Procs |-> "unset"]
    /\ client = [p \in Procs |-> [Timeout |-> 0]]
    /\ sent = [p \in Procs |-> 0]
    /\ req = [p \in Procs |-> NoRequest]
    /\ resp = [p \in Procs |-> NoResponse]
    /\ bodyRead = [p \in Procs |-> FALSE]
    /\ ret = [p \in Procs |-> NoReturn]
    /\ out = [p \in Procs |-> NoReply]

CsvIdle ==
    /\ data = <<>>
    /\ csvPc = "unused"
    /\ csvOut = NoOut

Init == InitServer /\ CsvIdle

InitCsv ==
    /\ data \in Texts
    /\ csvPc = "ready"
    /\ csvOut = NoOut
    /\ file = [exists |-> FALSE, text |-> <<>>]
    /\ envToken = ""
    /\ pc = [p \in Procs |-> "unused"]
    /\ kind = [p \in Procs |-> "none"]
    /\ reqBody = [p \in Procs |-> [valid |-> FALSE, query |-> <<>>]]
    /\ table = [p \in Procs |-> NoOut]
    /\ payload = [p \in Procs |-> UnsupportedPayload]
    /\ token = [p \in Procs |-> "unset"]
    /\ client = [p \in Procs |-> [Timeout |-> 0]]
    /\ sent = [p \in Procs |-> 0]
    /\ req = [p \in Procs |-> NoRequest]
    /\ resp = [p \in Procs |-> NoResponse]
    /\ bodyRead = [p \in Procs |-> FALSE]
    /\ ret = [p \in Procs |-> NoReturn]
    /\ out = [p \in Procs |-> NoReply]

\* ------------------------------------------------------- the /ask handler

\* c.JSON(code, gin.H{"error": ...}) and c.JSON(http.StatusOK, response)
ErrorReply(code, text, err) ==
    [code |-> code, error |-> text, err |-> err, response |-> ZeroResponse]

OKReply(response) ==
    [code |-> StatusOK, error |-> "", err |-> NilErr, response |-> response]

\* a POST /ask request arrives; its body is valid JSON with a query, or not
Ask(p) ==
    /\ pc[p] = "idle"
    /\ \E valid \in BOOLEAN :
          reqBody' = [reqBody EXCEPT ![p] =
                        [valid |-> valid, query |-> IF valid THEN QueryOf(p) ELSE <<>>]]
    /\ kind' = [kind EXCEPT ![p] = "ask"]
    /\ pc' = [pc EXCEPT ![p] = "load"]
    /\ UNCHANGED <<csvVars, envVars, table, out, callVars>>

\* os.Open, ioutil.ReadAll and CsvToSlice, lines 122 to 140
LoadCsv(p) ==
    /\ pc[p] = "load"
    /\ IF ~file.exists
       THEN /\ out' = [out EXCEPT ![p] =
                         ErrorReply(StatusInternalServerError, "Error reading CSV file: %v",
                                    Err("open data-series.csv: no such file or directory"))]
            /\ pc' = [pc EXCEPT ![p] = "done"]
            /\ UNCHANGED table
       ELSE \E t \in {CsvToSlice(file.text)} :
                /\ table' = [table EXCEPT ![p] = t]
                /\ IF t.err # ""
                   THEN /\ out' = [out EXCEPT ![p] =
                                     ErrorReply(StatusInternalServerError,
                                                "Error converting CSV to slice: %v", Err(t.err))]
                        /\ pc' = [pc EXCEPT ![p] = "done"]
                   ELSE /\ pc' = [pc EXCEPT ![p] = "bind"]
                        /\ UNCHANGED out
    /\ UNCHANGED <<csvVars, envVars, kind, reqBody, callVars>>

\* a payload built from the table and query of the first caller (a variable
\* of the package that the handlers share)
PayloadOf_shared(p) == Inputs(table[1].table, reqBody[1].query)

\* payload := Inputs{Table: table, Query: jsonData.Query}
PayloadOf(p) == Inputs(table[p].table, reqBody[p].query)

\* c.BindJSON(&jsonData), the payload, and client := &http.Client{}
BindQuery(p) ==
    /\ pc[p] = "bind"
    /\ IF ~reqBody[p].valid
       THEN /\ out' = [out EXCEPT ![p] =
                         ErrorReply(StatusBadRequest, "Invalid request", NilErr)]
            /\ pc' = [pc EXCEPT ![p] = "done"]
            /\ UNCHANGED <<payload, client>>
       ELSE /\ payload' = [payload EXCEPT ![p] = PayloadOf(p)]
            /\ client' = [client EXCEPT ![p] = [Timeout |-> 0]]
            /\ pc' = [pc EXCEPT ![p] = "token"]
            /\ UNCHANGED out
    /\ UNCHANGED <<csvVars, envVars, kind, reqBody, table, token, sent, req, resp,
                   bodyRead, ret>>

\* the handler calls the connector whatever the token is
TokenMissing_never(tok) == FALSE

\* if token == ""
TokenMissing(tok) == tok = ""

\* token := os.Getenv("HUGGINGFACE_TOKEN"), its check, and the call of
\* connector.ConnectAIModel(payload, token)
GetToken(p) ==
    /\ pc[p] = "token"
    /\ IF TokenMissing(envToken)
       THEN /\ out' = [out EXCEPT ![p] =
                         ErrorReply(StatusInternalServerError,
                                    "HUGGINGFACE_TOKEN is not set in the environment", NilErr)]
            /\ pc' = [pc EXCEPT ![p] = "done"]
            /\ UNCHANGED token
       ELSE /\ token' = [token EXCEPT ![p] = envToken]
            /\ pc' = [pc EXCEPT ![p] = "marshal"]
            /\ UNCHANGED out
    /\ UNCHANGED <<csvVars, envVars, kind, reqBody, table, payload, client, sent, req,
                   resp, bodyRead, ret>>

\* ------------------------------------------------------- ConnectAIModel

\* the table a direct caller passes: {Name: [Alice, Bob], Age: [30, 25]}
ExampleTable ==
    (<<"N", "a", "m", "e">> :> << <<"A", "l", "i", "c", "e">>, <<"B", "o", "b">> >>)
    @@ (<<"A", "g", "e">> :> << <<"3", "0">>, <<"2", "5">> >>)

\* ConnectAIModel is exported: a caller other than the handler calls it with
\* a payload, a token and a connector of its own
Direct(p) ==
    /\ p \in DirectCallers
    /\ pc[p] = "idle"
    /\ \E pl \in {Inputs(ExampleTable, QueryOf(p)), UnsupportedPayload},
          tok \in Tokens, tmo \in ClientTimeouts :
          /\ payload' = [payload EXCEPT ![p] = pl]
          /\ token' = [token EXCEPT ![p] = tok]
          /\ client' = [client EXCEPT ![p] = [Timeout |-> tmo]]
    /\ kind' = [kind EXCEPT ![p] = "direct"]
    /\ pc' = [pc EXCEPT ![p] = "marshal"]
    /\ UNCHANGED <<csvVars, envVars, askVars, sent, req, resp, bodyRead, ret>>

Returns(p, response, err) ==
    /\ ret' = [ret EXCEPT ![p] = [response |-> response, err |-> err]]
    /\ pc' = [pc EXCEPT ![p] = "returned"]

\* json.Marshal, http.NewRequest and the headers, lines 65 to 76
Marshal(p) ==
    /\ pc[p] = "marshal"
    /\ LET m == JsonMarshal(payload[p])
       IN  IF m.err # NilErr
           THEN /\ Returns(p, ZeroResponse, m.err)
                /\ UNCHANGED req
           ELSE /\ req' = [req EXCEPT ![p] = NewRequest(m.bytes, token[p])]
                /\ pc' = [pc EXCEPT ![p] = "do"]
                /\ UNCHANGED ret
    /\ UNCHANGED <<csvVars, envVars, kind, askVars, payload, token, client, sent, resp,
                   bodyRead>>

\* resp, err := c.Client.Do(req): the request goes out
Do(p) ==
    /\ pc[p] = "do"
    /\ sent' = [sent EXCEPT ![p] = @ + 1]
    /\ pc' = [pc EXCEPT ![p] = "wait"]
    /\ UNCHANGED <<csvVars, envVars, kind, askVars, payload, token, client, req, resp,
                   bodyRead, ret>>

\* the endpoint answers: Do returns resp
RemoteRespond(p) ==
    /\ pc[p] = "wait"
    /\ \E code \in Statuses, bk \in BodyKinds :
          /\ code # StatusOK => bk = "answer"
          /\ resp' = [resp EXCEPT ![p] = RemoteResponse(FALSE, code, bk, req[p])]
    /\ pc' = [pc EXCEPT ![p] = "status"]
    /\ UNCHANGED <<csvVars, envVars, kind, askVars, payload, token, client, sent, req,
                   bodyRead, ret>>

\* the request is sent once more after a failed exchange
AfterTransportError_retry(p) == IF sent[p] < 2 THEN "do" ELSE "returned"

\* if err != nil { return Response{}, err }
AfterTransportError(p) == "returned"

\* the exchange fails (DNS, refused connection): Do returns an error
TransportFail(p) ==
    /\ pc[p] = "wait"
    /\ resp' = [resp EXCEPT ![p] = [NoResponse EXCEPT !.fail = TRUE]]
    /\ ret' = [ret EXCEPT ![p] = [response |-> ZeroResponse, err |-> Err("dial tcp: failed")]]
    /\ pc' = [pc EXCEPT ![p] = AfterTransportError(p)]
    /\ UNCHANGED <<csvVars, envVars, kind, askVars, payload, token, client, sent, req,
                   bodyRead>>

\* c.Client.Timeout, when not 0, ends Do with an error
Timeout(p) ==
    /\ pc[p] = "wait"
    /\ client[p].Timeout > 0
    /\ Returns(p, ZeroResponse, Err("Client.Timeout exceeded while awaiting headers"))
    /\ UNCHANGED <<csvVars, envVars, kind, askVars, payload, token, client, sent, req,
                   resp, bodyRead>>

\* if resp.StatusCode != http.StatusOK
CheckStatus(p) ==
    /\ pc[p] = "status"
    /\ IF ~StatusIsOK(resp[p].StatusCode)
       THEN Returns(p, ZeroResponse, StatusErr(resp[p].StatusCode, resp[p].Status))
       ELSE /\ pc' = [pc EXCEPT ![p] = "read"]
            /\ UNCHANGED ret
    /\ UNCHANGED <<csvVars, envVars, kind, askVars, payload, token, client, sent, req,
                   resp, bodyRead>>

\* respBody, err := ioutil.ReadAll(resp.Body)
ReadBody(p) ==
    /\ pc[p] = "read"
    /\ bodyRead' = [bodyRead EXCEPT ![p] = TRUE]
    /\ LET e == ReadAllBody(resp[p].Body)
       IN  IF e # NilErr
           THEN Returns(p, ZeroResponse, e)
           ELSE /\ pc' = [pc EXCEPT ![p] = "decode"]
                /\ UNCHANGED ret
    /\ UNCHANGED <<csvVars, envVars, kind, askVars, payload, token, client, sent, req,
                   resp>>

\* json.NewDecoder(bytes.NewReader(respBody)).Decode(&response) and the return
Decode(p) ==
    /\ pc[p] = "decode"
    /\ LET r == DecodeResult(JsonDecode(resp[p].Body))
       IN  Returns(p, r.response, r.err)
    /\ UNCHANGED <<csvVars, envVars, kind, askVars, payload, token, client, sent, req,
                   resp, bodyRead>>

\* the caller has the result: the handler answers, lines 169 to 175
Return(p) ==
    /\ pc[p] = "returned"
    /\ IF kind[p] = "ask"
       THEN out' = [out EXCEPT ![p] =
                      IF ret[p].err # NilErr
                      THEN ErrorReply(StatusInternalServerError,
                                      "Error connecting to AI model: %v", ret[p].err)
                      ELSE OKReply(ret[p].response)]
       ELSE UNCHANGED out
    /\ pc' = [pc EXCEPT ![p] = "done"]
    /\ UNCHANGED <<csvVars, envVars, kind, reqBody, table, callVars>>

\* the steps of caller p that the program itself takes
Step(p) ==
    \/ LoadCsv(p)
    \/ BindQuery(p)
    \/ GetToken(p)
    \/ Marshal(p)
    \/ Do(p)
    \/ Timeout(p)
    \/ CheckStatus(p)
    \/ ReadBody(p)
    \/ Decode(p)
    \/ Return(p)

Next ==
    \E p \in Procs :
        \/ Ask(p)
        \/ Direct(p)
        \/ RemoteRespond(p)
        \/ TransportFail(p)
        \/ Step(p)

Spec == Init /\ [][Next]_vars

\* every started step of the program is taken; nothing makes a caller arrive
\* or the endpoint answer
LiveSpec == Spec /\ \A p \in Procs : WF_vars(Step(p))

\* --------------------------------------------------------- CsvToSlice alone

\* table, err := CsvToSlice(data)
CallCsvToSlice ==
    /\ csvPc = "ready"
    /\ csvOut' = CsvToSlice(data)
    /\ csvPc' = "returned"
    /\ UNCHANGED <<data, envVars, pc, kind, askVars, callVars>>

NextCsv == CallCsvToSlice

SpecCsv == InitCsv /\ [][NextCsv]_vars

\* ------------------------------------------------ rows of a delimited text

NoQuote(t) == ~Has(t, QUOTE)

RECURSIVE SplitOn(_, _)
SplitOn(s, sep) ==
    LET k == IndexOf(s, sep)
    IN  IF k = 0 THEN <<s>> ELSE <<SubSeq(s, 1, k - 1)>> \o SplitOn(From(s, k + 1), sep)

RECURSIVE DropSpaces(_)
DropSpaces(f) == IF Len(f) > 0 /\ f[1] = SP THEN DropSpaces(Tail(f)) ELSE f

\* the fields of a line without quotes: its parts between commas, leading
\* spaces dropped
RefFields(line) ==
    LET parts == SplitOn(line, COMMA)
    IN  [i \in 1..Len(parts) |-> DropSpaces(parts[i])]

\* the rows of a text without quotes: its lines that are not empty
RefRows(t) ==
    LET lines == SelectSeq(SplitOn(t, NL), LAMBDA l : Len(l) > 0)
    IN  [i \in 1..Len(lines) |-> RefFields(lines[i])]

\* the rows of a text: read off the text when it holds no quote, and the
\* records of the reader otherwise
Rows(t) == IF NoQuote(t) THEN RefRows(t) ELSE ReadAll(t).records

\* a header row, and every row with as many fields as the header
WellFormed(t) ==
    IF NoQuote(t)
    THEN \A r \in 1..Len(RefRows(t)) : Len(RefRows(t)[r]) = Len(RefRows(t)[1])
    ELSE ReadAll(t).err = ""

UniqueHeaders(headers) ==
    \A i, j \in 1..Len(headers) : headers[i] = headers[j] => i = j

HasShortRow(rows) ==
    /\ Len(rows) >= 2
    /\ \E r \in 2..Len(rows) : Len(rows[r]) < Len(rows[1])

\* ---------------------------------------------------------------- claims

\* C1: for every well-formed input with a header row and at least one data
\* row, repeated header names included, CsvToSlice returns a table with one
\* column per header whose length is the number of data rows.  (A Go map has
\* no column order to compare with the header order.)
C1_ColumnLengths ==
    (csvPc = "returned" /\ WellFormed(data) /\ Len(Rows(data)) >= 2) =>
        /\ csvOut.err = ""
        /\ DOMAIN csvOut.table = Range(Rows(data)[1])
        /\ \A h \in DOMAIN csvOut.table : Len(csvOut.table[h]) = Len(Rows(data)) - 1

\* C8: for every well-formed input with unique header names, the field at
\* position i of the r-th data row is cell r of the column of the i-th header,
\* there are no other columns or cells, and the example input gives exactly
\* {Name: [Alice, Bob], Age: [30, 25]}.
C8_CellsByPosition ==
    /\ (csvPc = "returned" /\ WellFormed(data) /\ Len(Rows(data)) >= 2
          /\ UniqueHeaders(Rows(data)[1])) =>
            LET rows == Rows(data)
                headers == rows[1]
            IN  /\ csvOut.err = ""
                /\ DOMAIN csvOut.table = Range(headers)
                /\ \A i \in 1..Len(headers) :
                      csvOut.table[headers[i]] = [r \in 1..(Len(rows) - 1) |-> rows[r + 1][i]]
    /\ (csvPc = "returned" /\ data = ExampleText) =>
            (csvOut.err = "" /\ csvOut.table = ExampleTable)

C8_Witness ==
    /\ csvPc = "returned"
    /\ data = ExampleText
    /\ csvOut.table = ExampleTable

\* C6: a data row with fewer fields than the header makes CsvToSlice return
\* an error and no table; a table is returned only when every record has as
\* many fields as the header.
C6_ShortRowRejected ==
    csvPc = "returned" =>
        /\ (NoQuote(data) /\ HasShortRow(RefRows(data))) =>
              (csvOut.err = "ErrFieldCount" /\ csvOut.table = NilTable)
        /\ csvOut.err = "" =>
              \A r \in 1..Len(ReadAll(data).records) :
                  Len(ReadAll(data).records[r]) = Len(ReadAll(data).records[1])

C6_Witness ==
    /\ csvPc = "returned"
    /\ NoQuote(data)
    /\ HasShortRow(RefRows(data))
    /\ Len(RefRows(data)) >= 3
    /\ csvOut.err = "ErrFieldCount"

\* C9: an input with no record or with a header record alone fails with the
\* error of line 45 and no table; a table is returned only for an input with
\* at least one data row.
C9_NeedsDataRow ==
    csvPc = "returned" =>
        /\ (NoQuote(data) /\ Len(RefRows(data)) < 2) =>
              (csvOut.err = ErrNoData /\ csvOut.table = NilTable)
        /\ (ReadAll(data).err = "" /\ Len(ReadAll(data).records) < 2) =>
              (csvOut.err = ErrNoData /\ csvOut.table = NilTable)
        /\ csvOut.err = "" => (Len(Rows(data)) >= 2 /\ csvOut.table # NilTable)

C9_Witness ==
    /\ csvPc = "returned"
    /\ NoQuote(data)
    /\ Len(RefRows(data)) = 1
    /\ csvOut.err = ErrNoData

\* --------------------------------------------------- claims on the connector

Called(p) == pc[p] = "returned" \/ (pc[p] = "done" /\ ret[p] # NoReturn)

InConnect(p) == pc[p] \in {"marshal", "do", "wait", "status", "read", "decode", "returned"}

\* the caller's credential is empty
EmptyCredential(p) ==
    \/ kind[p] = "direct" /\ token[p] = ""
    \/ kind[p] = "ask" /\ envToken = ""

TokenReply ==
    ErrorReply(StatusInternalServerError,
               "HUGGINGFACE_TOKEN is not set in the environment", NilErr)

Responded(p) == resp[p] # NoResponse /\ ~resp[p].fail

\* C3: ConnectAIModel returns without error only for a response with status
\* 200; for a response with any other status it returns the zero Response and
\* an error carrying the status code and the status text, and does not read
\* the body.
C3_OnlyStatusOKSucceeds ==
    \A p \in Procs :
        Called(p) =>
            /\ ret[p].err = NilErr => (Responded(p) /\ resp[p].StatusCode = 200)
            /\ (Responded(p) /\ resp[p].StatusCode # 200) =>
                  /\ ret[p].response = ZeroResponse
                  /\ ret[p].err.code = resp[p].StatusCode
                  /\ ret[p].err.status = resp[p].Status
                  /\ ret[p].err.msg = "failed to get valid response: %d %s"
                  /\ ~bodyRead[p]

C3_Witness ==
    \E p \in Procs :
        /\ pc[p] = "returned"
        /\ resp[p].StatusCode = 401
        /\ ret[p].err.code = 401
        /\ ret[p].err.status = "401 Unauthorized"
        /\ ~bodyRead[p]

Outcome(p) ==
    IF ret[p].err = NilErr THEN "Success"
    ELSE IF ret[p].err.code # 0 THEN "Rejected"
    ELSE "Failed"

\* the outcome the arguments of the call and the answer to its one request
\* determine
OutcomeFor(pl, r) ==
    IF pl.kind # "Inputs" THEN "Failed"
    ELSE IF r = NoResponse \/ r.fail THEN "Failed"
    ELSE IF r.StatusCode # 200 THEN "Rejected"
    ELSE IF r.Body.kind \in {"answer", "trailing"} THEN "Success"
    ELSE "Failed"

\* C5: a call of ConnectAIModel issues at most one request whatever its
\* outcome, and ends in the one of Success, Rejected and Failed that its
\* arguments and the answer to that request determine.
C5_SingleAttempt ==
    \A p \in Procs :
        /\ sent[p] <= 1
        /\ Called(p) =>
              /\ Outcome(p) = OutcomeFor(payload[p], resp[p])
              /\ Outcome(p) \in {"Success", "Rejected"} => sent[p] = 1
              /\ payload[p].kind # "Inputs" => sent[p] = 0

C5_Witness ==
    \E p \in Procs :
        /\ pc[p] = "returned"
        /\ resp[p].fail
        /\ sent[p] = 1
        /\ Outcome(p) = "Failed"

\* C7: every call of ConnectAIModel and every /ask request that has started
\* reaches its end, also when the endpoint never answers.
C7_EveryCallEnds ==
    \A p \in Procs : (pc[p] \notin {"idle", "done"}) ~> (pc[p] = "done")

\* what ConnectAIModel returns for a payload, a token and the endpoint's
\* choice of answer (fail, status, body), run on its own
ConnectAlone(pl, tok, fail, code, bkind) ==
    LET m == JsonMarshal(pl)
        r == RemoteResponse(fail, code, bkind, NewRequest(m.bytes, tok))
    IN  IF m.err # NilErr THEN [response |-> ZeroResponse, err |-> m.err]
        ELSE IF fail THEN [response |-> ZeroResponse, err |-> Err("dial tcp: failed")]
        ELSE IF ~StatusIsOK(code)
        THEN [response |-> ZeroResponse, err |-> StatusErr(code, StatusLine(code))]
        ELSE IF ReadAllBody(r.Body) # NilErr
        THEN [response |-> ZeroResponse, err |-> ReadAllBody(r.Body)]
        ELSE DecodeResult(JsonDecode(r.Body))

\* what the handler answers to a request, run on its own; t is what
\* CsvToSlice returns for the text of the file
AskAlone(f, t, body, tok, fail, code, bkind) ==
    IF ~f.exists
    THEN ErrorReply(StatusInternalServerError, "Error reading CSV file: %v",
                    Err("open data-series.csv: no such file or directory"))
    ELSE IF t.err # ""
    THEN ErrorReply(StatusInternalServerError, "Error converting CSV to slice: %v",
                    Err(t.err))
    ELSE IF ~body.valid THEN ErrorReply(StatusBadRequest, "Invalid request", NilErr)
    ELSE IF tok = "" THEN TokenReply
    ELSE LET r == ConnectAlone(Inputs(t.table, body.query), tok, fail, code, bkind)
         IN  IF r.err # NilErr
             THEN ErrorReply(StatusInternalServerError, "Error connecting to AI model: %v",
                             r.err)
             ELSE OKReply(r.response)

\* C10: under every interleaving of concurrent /ask requests each request
\* works on the table it parsed itself and the payload it built itself, and
\* its reply is the reply it would get run alone on the same file, token and
\* answer of the endpoint.
C10_RequestsIndependent ==
    \A t \in {CsvToSlice(file.text)} :
        \A p \in Procs :
            kind[p] = "ask" =>
                /\ pc[p] \in {"bind", "token"} \/ InConnect(p) => table[p] = t
                /\ pc[p] = "token" \/ InConnect(p) =>
                      payload[p] = Inputs(t.table, QueryOf(p))
                /\ pc[p] = "done" =>
                      out[p] = AskAlone(file, t, reqBody[p], envToken, resp[p].fail,
                                        resp[p].StatusCode, resp[p].Body.kind)

C10_Witness ==
    \E p, q \in Procs :
        /\ p # q
        /\ kind[p] = "ask" /\ kind[q] = "ask"
        /\ pc[p] = "done" /\ pc[q] = "done"
        /\ out[p].code = StatusOK /\ out[q].code = StatusOK
        /\ out[p].response # out[q].response

====
